---- MODULE Spec2Model ----
(***************************************************************************)
(* A model of scripts/generate-qr.py: the CREDEBL QR code generator.      *)
(* One run of the script is one behaviour: the module-level imports, then  *)
(* main() statement group by statement group.  Everything the run does     *)
(* that can be observed from outside (lines printed, the HTTP POST, the    *)
(* call of the encoder, the image written, the traceback of an uncaught    *)
(* exception) is appended to `events` in the order the code does it.       *)
(*                                                                         *)
(* Python strings are sequences of one-character strings; None is a value  *)
(* of its own.  Literal text of the script is kept as one token.           *)
(***************************************************************************)
EXTENDS Naturals, Sequences, FiniteSets, TLC

\* Longest invitation URL (in characters) the model draws.
MaxUrlLen == 1

\* requests.post(..., timeout=30): the longest the POST can block, in seconds.
TimeoutSecs == 30

\* parser.add_argument("-s", "--size", default=10)
DefaultSize == 10

\* The characters URLs are drawn from: an unreserved one and two reserved ones.
Chars == {"a", "&", "?"}

\* Python's None.
None == <<"<None>">>

\* str(x) as print() and the encoder apply it.
Str(x) == IF x = None THEN <<"N", "o", "n", "e">> ELSE x

\* bool(x) of an optional string: None and "" are falsy.
Truthy(x) == x # None /\ x # <<>>

\* Python's `a or b`.
Or(a, b) == IF Truthy(a) THEN a ELSE b

Strings(n) == UNION {[1..k -> Chars] : k \in 0..n}

\* Invitation URLs a caller or the agent API can supply ("" included).
URLs == Strings(MaxUrlLen)

\* Values of the positional output_file.
PosPaths == {<<>>, <<"p">>}

\* Values of --output (None: flag not given).
FlagPaths == {None, <<>>, <<"f">>}

\* Values of --api-key (None: flag not given) and of CREDEBL_API_KEY (None: unset).
KeyFlags == {None, <<>>, <<"k">>}
EnvKeys == {None, <<>>, <<"e">>}

\* The positional arguments of a command line: argparse fills invitation_url
\* first and output_file second.
Positionals ==
    {<<>>} \cup {<<u>> : u \in URLs} \cup {<<u, p>> : u \in URLs, p \in PosPaths}

DefaultBaseUrl == <<"http://localhost:8004">>
DefaultLabel == <<"CREDEBL Issuer">>

\* A dict with string keys; {} is the function with the empty domain.
EmptyDict == [k \in {} |-> <<>>]

\* dict.get(key, default)
Get(d, key, default) == IF key \in DOMAIN d THEN d[key] ELSE default

\* JSON objects the agent can answer with: invitationUrl and outOfBandRecord
\* are each present or absent.
Responses ==
    {[k \in S |-> IF k = "invitationUrl" THEN u ELSE [id |-> <<"r">>]] :
        S \in SUBSET {"invitationUrl", "outOfBandRecord"}, u \in URLs}

\* requests.exceptions.RequestException subclasses raised by post() or
\* raise_for_status().
RequestErrors == {"ConnectionError", "Timeout", "HTTPError"}

VARIABLES
    pc,               \* position of the run
    installed,        \* the importable packages among qrcode and requests
    environ,          \* os.environ["CREDEBL_API_KEY"], None when unset
    argv,             \* the command line
    requests,         \* the module global `requests`: TRUE = module, FALSE = None
    args,             \* the argparse namespace
    output_file,      \* main's local output_file
    invitation_url,   \* main's local invitation_url
    invitation_data,  \* main's local invitation_data
    events,           \* what the run did, in order
    files,            \* image files written: <<path, data>>
    exit_code,        \* process exit status, None while running
    now               \* seconds since the process started

vars == <<pc, installed, environ, argv, requests, args, output_file,
          invitation_url, invitation_data, events, files, exit_code, now>>

----------------------------------------------------------------------------
\* Events.

Line(tag, payload) == [k |-> "print", a |-> <<tag>>, b |-> payload]
Blank == [k |-> "print", a |-> <<>>, b |-> <<>>]
\* print(value): a line with no literal text.
LineOf(v) == [k |-> "print", a |-> <<>>, b |-> Str(v)]
Post(url, status) == [k |-> "post", a |-> url, b |-> <<status>>]
Encode(path, data) == [k |-> "encode", a |-> path, b |-> data]
Write(path, data) == [k |-> "write", a |-> path, b |-> data]
Art(data) == [k |-> "art", a |-> <<>>, b |-> data]
Traceback(exc) == [k |-> "stderr", a |-> <<"Traceback">>, b |-> <<exc>>]

----------------------------------------------------------------------------
\* Pure helpers of the script and of the libraries it calls.

\* datetime.now().strftime("%Y%m%d_%H%M%S")
Strftime(t) == ToString(t)

\* os.path.abspath of a relative path.
Abspath(p) == <<"/cwd/">> \o p

\* urllib's hex escape of one character.
Hex(c) ==
    CASE c = "&" -> <<"%", "2", "6">>
      [] c = "?" -> <<"%", "3", "F">>
      [] c = "=" -> <<"%", "3", "D">>
      [] c = "#" -> <<"%", "2", "3">>
      [] c = " " -> <<"%", "2", "0">>
      [] OTHER   -> <<"%", "X", "X">>

\* Characters quote() leaves alone: unreserved ones and the default safe="/".
QuoteSafe == {"a", "/"}

\* requests.utils.quote(s) = urllib.parse.quote(s, safe="/")
RECURSIVE Quote(_)
Quote(s) ==
    IF s = <<>> THEN <<>>
    ELSE (IF Head(s) \in QuoteSafe THEN <<Head(s)>> ELSE Hex(Head(s)))
         \o Quote(Tail(s))

\* s.replace("&", "%26")
RECURSIVE ReplaceAmp(_)
ReplaceAmp(s) ==
    IF s = <<>> THEN <<>>
    ELSE (IF Head(s) = "&" THEN <<"%", "2", "6">> ELSE <<Head(s)>>)
         \o ReplaceAmp(Tail(s))

\* json.dumps(invitation_data, indent=2)
JsonDumps(d) ==
    <<"{">>
    \o (IF "invitationUrl" \in DOMAIN d
        THEN <<"invitationUrl:">> \o d["invitationUrl"] ELSE <<>>)
    \o (IF "outOfBandRecord" \in DOMAIN d
        THEN <<"outOfBandRecord:">> \o d["outOfBandRecord"].id ELSE <<>>)
    \o <<"}">>

\* ResolveOutputFile with the operands of `or` swapped: the positional wins.
ResolveOutputFilePositionalFirst(flag, positional, t) ==
    IF Or(positional, flag) = None
    THEN <<"qr_", Strftime(t), ".png">>
    ELSE Or(positional, flag)

\* args.output_file_flag or args.output_file, else qr_<timestamp>.png
ResolveOutputFile(flag, positional, t) ==
    IF Or(flag, positional) = None
    THEN <<"qr_", Strftime(t), ".png">>
    ELSE Or(flag, positional)

\* default=os.environ.get("CREDEBL_API_KEY", "") unless -k is given
ResolveApiKey(flag, env) ==
    IF flag # None THEN flag ELSE IF env = None THEN <<>> ELSE env

\* parser.parse_args()
ParseArgsOf(av, env) ==
    [invitation_url   |-> IF Len(av.positionals) >= 1 THEN av.positionals[1] ELSE None,
     output_file      |-> IF Len(av.positionals) >= 2 THEN av.positionals[2] ELSE None,
     from_api         |-> av.from_api,
     base_url         |-> DefaultBaseUrl,
     api_key          |-> ResolveApiKey(av.api_key, env),
     label            |-> DefaultLabel,
     output_file_flag |-> av.output,
     size             |-> DefaultSize,
     terminal         |-> av.terminal,
     json             |-> av.json]

NoArgs ==
    [invitation_url |-> None, output_file |-> None, from_api |-> FALSE,
     base_url |-> None, api_key |-> None, label |-> None,
     output_file_flag |-> None, size |-> 0, terminal |-> FALSE, json |-> FALSE]

\* encoded_url = requests.utils.quote(u) if requests else u.replace("&", "%26")
EncodedUrl(u, req) == IF req THEN Quote(u) ELSE ReplaceAmp(u)

LinkPrefix == "https://api.qrserver.com/v1/create-qr-code/?size=300x300&data="

----------------------------------------------------------------------------
Init ==
    /\ pc = "start"
    /\ installed \in SUBSET {"qrcode", "requests"}
    /\ environ \in EnvKeys
    /\ argv \in [positionals : Positionals, from_api : BOOLEAN,
                 api_key : KeyFlags, output : FlagPaths,
                 terminal : BOOLEAN, json : BOOLEAN]
    /\ requests = FALSE
    /\ args = NoArgs
    /\ output_file = None
    /\ invitation_url = None
    /\ invitation_data = EmptyDict
    /\ events = <<>>
    /\ files = {}
    /\ exit_code = None
    /\ now = 0

\* sys.exit(code) after the given events; an uncaught exception ends the
\* process the same way with status 1.
Exit(evs, code) ==
    /\ events' = events \o evs
    /\ exit_code' = <<ToString(code)>>
    /\ pc' = "exit"

\* ImportModules without the sys.exit(1) of the except branch.
ImportModulesNoExit ==
    /\ pc = "start"
    /\ events' = events \o
          (IF "qrcode" \notin installed
           THEN <<Line("Error: Required packages not installed.", <<>>),
                  Line("Run: pip install qrcode pillow", <<>>)>>
           ELSE <<>>)
    /\ requests' = ("requests" \in installed)
    /\ pc' = "main"
    /\ UNCHANGED <<installed, environ, argv, args, output_file,
                   invitation_url, invitation_data, files, exit_code, now>>

\* Lines 28-39: the module-level imports.
ImportModules ==
    /\ pc = "start"
    /\ IF "qrcode" \notin installed
       THEN /\ Exit(<<Line("Error: Required packages not installed.", <<>>),
                      Line("Run: pip install qrcode pillow", <<>>)>>, 1)
            /\ UNCHANGED requests
       ELSE /\ requests' = ("requests" \in installed)
            /\ pc' = "main"
            /\ UNCHANGED <<events, exit_code>>
    /\ UNCHANGED <<installed, environ, argv, args, output_file,
                   invitation_url, invitation_data, files, now>>

\* Lines 108-178: build the parser, parse, determine the output file.
ParseArgs ==
    /\ pc = "main"
    /\ args' = ParseArgsOf(argv, environ)
    /\ output_file' = ResolveOutputFile(args'.output_file_flag, args'.output_file, now)
    /\ pc' = "acquire"
    /\ UNCHANGED <<installed, environ, argv, requests, invitation_url,
                   invitation_data, events, files, exit_code, now>>

\* ApiKeyCheck without the `if not args.api_key` test.
ApiKeyCheckNoKeyTest ==
    /\ pc = "acquire"
    /\ args.from_api
    /\ events' = events \o
          <<Line("Creating invitation via API...", <<>>),
            Line("  Base URL: ", args.base_url),
            Line("  Label: ", args.label),
            Blank>>
    /\ pc' = "call_api"
    /\ UNCHANGED <<installed, environ, argv, requests, args, output_file,
                   invitation_url, invitation_data, files, exit_code, now>>

\* Lines 181-190: API mode, the key check and the status lines.
ApiKeyCheck ==
    /\ pc = "acquire"
    /\ args.from_api
    /\ IF ~Truthy(args.api_key)
       THEN Exit(<<Line("Error: API key required when using --from-api", <<>>),
                   Line("Set CREDEBL_API_KEY environment variable or use --api-key", <<>>)>>, 1)
       ELSE /\ events' = events \o
                  <<Line("Creating invitation via API...", <<>>),
                    Line("  Base URL: ", args.base_url),
                    Line("  Label: ", args.label),
                    Blank>>
            /\ pc' = "call_api"
            /\ UNCHANGED exit_code
    /\ UNCHANGED <<installed, environ, argv, requests, args, output_file,
                   invitation_url, invitation_data, files, now>>

\* Lines 59-64 (called from 192): requests is None.
CreateInvitationNoRequests ==
    /\ pc = "call_api"
    /\ ~requests
    /\ Exit(<<Line("Error: requests package not installed.", <<>>),
              Line("Run: pip install requests", <<>>)>>, 1)
    /\ UNCHANGED <<installed, environ, argv, requests, args, output_file,
                   invitation_url, invitation_data, files, now>>

\* CreateInvitationFromApi with one retry of a failed POST.
CreateInvitationFromApiRetry ==
    /\ pc = "call_api"
    /\ requests
    /\ \E d \in {0, TimeoutSecs} : now' = now + d
    /\ \/ \E r \in Responses :
            /\ events' = events \o
                  <<Post(args.base_url \o <<"/didcomm/oob/create-invitation">>, "200")>>
            /\ invitation_data' = r
            /\ pc' = "api_report"
            /\ UNCHANGED exit_code
       \/ \E e \in RequestErrors :
            /\ Exit(<<Post(args.base_url \o <<"/didcomm/oob/create-invitation">>, e),
                      Post(args.base_url \o <<"/didcomm/oob/create-invitation">>, e),
                      Line("Error creating invitation: ", <<e>>)>>, 1)
            /\ UNCHANGED invitation_data
    /\ UNCHANGED <<installed, environ, argv, requests, args, output_file,
                   invitation_url, files>>

\* Lines 66-89 (called from 192): one POST, its answer or its error.
CreateInvitationFromApi ==
    /\ pc = "call_api"
    /\ requests
    /\ \E d \in {0, TimeoutSecs} : now' = now + d
    /\ \/ \E r \in Responses :
            /\ events' = events \o
                  <<Post(args.base_url \o <<"/didcomm/oob/create-invitation">>, "200")>>
            /\ invitation_data' = r
            /\ pc' = "api_report"
            /\ UNCHANGED exit_code
       \/ \E e \in RequestErrors :
            /\ Exit(<<Post(args.base_url \o <<"/didcomm/oob/create-invitation">>, e),
                      Line("Error creating invitation: ", <<e>>)>>, 1)
            /\ UNCHANGED invitation_data
    /\ UNCHANGED <<installed, environ, argv, requests, args, output_file,
                   invitation_url, files>>

\* ApiReport with the --json dump printed after the success summary.
ApiReportJsonLast ==
    /\ pc = "api_report"
    /\ invitation_url' = Get(invitation_data, "invitationUrl", None)
    /\ events' = events
          \o <<Line("Invitation created successfully!", <<>>),
               Line("  OOB Record ID: ",
                    Get(Get(invitation_data, "outOfBandRecord", EmptyDict),
                        "id", <<"N/A">>)),
               Blank>>
          \o (IF args.json
              THEN <<Line("json", JsonDumps(invitation_data)), Blank>> ELSE <<>>)
    /\ pc' = "generate"
    /\ UNCHANGED <<installed, environ, argv, requests, args, output_file,
                   invitation_data, files, exit_code, now>>

\* ApiReport with a presence check: an answer without invitationUrl is an
\* error at acquisition.
ApiReportChecksUrl ==
    /\ pc = "api_report"
    /\ invitation_url' = Get(invitation_data, "invitationUrl", None)
    /\ IF "invitationUrl" \notin DOMAIN invitation_data
       THEN Exit(<<Line("Error creating invitation: ", <<"no invitationUrl">>)>>, 1)
       ELSE /\ events' = events
                  \o (IF args.json
                      THEN <<Line("json", JsonDumps(invitation_data)), Blank>> ELSE <<>>)
                  \o <<Line("Invitation created successfully!", <<>>),
                       Line("  OOB Record ID: ",
                            Get(Get(invitation_data, "outOfBandRecord", EmptyDict),
                                "id", <<"N/A">>)),
                       Blank>>
            /\ pc' = "generate"
            /\ UNCHANGED exit_code
    /\ UNCHANGED <<installed, environ, argv, requests, args, output_file,
                   invitation_data, files, now>>

\* Lines 198-206: read the URL out of the answer, report.
ApiReport ==
    /\ pc = "api_report"
    /\ invitation_url' = Get(invitation_data, "invitationUrl", None)
    /\ events' = events
          \o (IF args.json
              THEN <<Line("json", JsonDumps(invitation_data)), Blank>> ELSE <<>>)
          \o <<Line("Invitation created successfully!", <<>>),
               Line("  OOB Record ID: ",
                     Get(Get(invitation_data, "outOfBandRecord", EmptyDict),
                         "id", <<"N/A">>)),
               Blank>>
    /\ pc' = "generate"
    /\ UNCHANGED <<installed, environ, argv, requests, args, output_file,
                   invitation_data, files, exit_code, now>>

\* Lines 208-209: direct mode.
UseInvitationUrl ==
    /\ pc = "acquire"
    /\ ~args.from_api
    /\ Truthy(args.invitation_url)
    /\ invitation_url' = args.invitation_url
    /\ pc' = "generate"
    /\ UNCHANGED <<installed, environ, argv, requests, args, output_file,
                   invitation_data, events, files, exit_code, now>>

\* UsageError without the sys.exit(1): the run falls through to the encode
\* step.
UsageErrorNoExit ==
    /\ pc = "acquire"
    /\ ~args.from_api
    /\ ~Truthy(args.invitation_url)
    /\ events' = events \o
          <<Line("Error: Either provide invitation_url or use --from-api", <<>>),
            Line("usage", <<>>)>>
    /\ pc' = "generate"
    /\ UNCHANGED <<installed, environ, argv, requests, args, output_file,
                   invitation_url, invitation_data, files, exit_code, now>>

\* Lines 210-213: neither a URL nor --from-api.
UsageError ==
    /\ pc = "acquire"
    /\ ~args.from_api
    /\ ~Truthy(args.invitation_url)
    /\ Exit(<<Line("Error: Either provide invitation_url or use --from-api", <<>>),
              Line("usage", <<>>)>>, 1)
    /\ UNCHANGED <<installed, environ, argv, requests, args, output_file,
                   invitation_url, invitation_data, files, now>>

\* Lines 215-219 with create_qr_code (42-56).  The encoder takes str(data);
\* make() or save() can raise (data too long, unwritable path), and then no
\* file is left behind.
GenerateQr ==
    /\ pc = "generate"
    /\ \E ok \in BOOLEAN :
          IF ok
          THEN /\ events' = events \o
                     <<Line("Generating QR code...", <<>>),
                       Encode(output_file, invitation_url),
                       Write(output_file, Str(invitation_url)),
                       Line("  Output: ", Abspath(output_file)),
                       Blank>>
               /\ files' = files \cup {<<output_file, Str(invitation_url)>>}
               /\ pc' = "terminal"
               /\ UNCHANGED exit_code
          ELSE /\ Exit(<<Line("Generating QR code...", <<>>),
                         Encode(output_file, invitation_url),
                         Traceback("Exception")>>, 1)
               /\ UNCHANGED files
    /\ UNCHANGED <<installed, environ, argv, requests, args, output_file,
                   invitation_url, invitation_data, now>>

\* Lines 221-225 with print_terminal_qr (92-104).
PrintTerminal ==
    /\ pc = "terminal"
    /\ events' = events \o
          (IF args.terminal
           THEN <<Line("Terminal QR Code:", <<>>), Art(invitation_url), Blank>>
           ELSE <<>>)
    /\ pc' = "print_url"
    /\ UNCHANGED <<installed, environ, argv, requests, args, output_file,
                   invitation_url, invitation_data, files, exit_code, now>>

\* Lines 227-230.
PrintInvitationUrl ==
    /\ pc = "print_url"
    /\ events' = events \o
          <<Line("Invitation URL:", <<>>), LineOf(invitation_url), Blank>>
    /\ pc' = "link"
    /\ UNCHANGED <<installed, environ, argv, requests, args, output_file,
                   invitation_url, invitation_data, files, exit_code, now>>

\* Lines 232-238.  quote(None) raises TypeError, which nothing catches.
PrintOnlineLink ==
    /\ pc = "link"
    /\ IF requests /\ invitation_url = None
       THEN Exit(<<Traceback("TypeError")>>, 1)
       ELSE /\ events' = events \o
                  <<Line("Online QR Generator:", <<>>),
                    Line(LinkPrefix, EncodedUrl(invitation_url, requests)),
                    Blank,
                    Line("Done! Scan the QR code with your mobile wallet.", <<>>)>>
            /\ exit_code' = <<ToString(0)>>
            /\ pc' = "done"
    /\ UNCHANGED <<installed, environ, argv, requests, args, output_file,
                   invitation_url, invitation_data, files, now>>

Next ==
    \/ ImportModules
    \/ ParseArgs
    \/ ApiKeyCheck
    \/ CreateInvitationNoRequests
    \/ CreateInvitationFromApi
    \/ ApiReport
    \/ UseInvitationUrl
    \/ UsageError
    \/ GenerateQr
    \/ PrintTerminal
    \/ PrintInvitationUrl
    \/ PrintOnlineLink

Spec == Init /\ [][Next]_vars

----------------------------------------------------------------------------
\* Vocabulary of the properties.

IsPost(e) == e.k = "post"
IsWrite(e) == e.k = "write"
IsEncode(e) == e.k = "encode"
Posts == SelectSeq(events, IsPost)
Writes == SelectSeq(events, IsWrite)
Encodes == SelectSeq(events, IsEncode)
Printed(e) == \E i \in DOMAIN events : events[i] = e

Terminated == pc \in {"done", "exit"}
Failed == pc = "exit" /\ exit_code = <<"1">>
\* main() was entered: the module-level imports went through.
MainInvoked == pc # "start" /\ "qrcode" \in installed
\* parse_args() and the output-file resolution are done.
Parsed == MainInvoked /\ pc # "main"

UrlSupplied == Len(argv.positionals) >= 1
OutputSupplied == Len(argv.positionals) >= 2

UsageErrorEvents ==
    <<Line("Error: Either provide invitation_url or use --from-api", <<>>),
      Line("usage", <<>>)>>
KeyErrorEvents ==
    <<Line("Error: API key required when using --from-api", <<>>),
      Line("Set CREDEBL_API_KEY environment variable or use --api-key", <<>>)>>
QrMissingEvents ==
    <<Line("Error: Required packages not installed.", <<>>),
      Line("Run: pip install qrcode pillow", <<>>)>>
RequestsMissingEvents ==
    <<Line("Error: requests package not installed.", <<>>),
      Line("Run: pip install requests", <<>>)>>
StatusEvents ==
    <<Line("Creating invitation via API...", <<>>),
      Line("  Base URL: ", DefaultBaseUrl),
      Line("  Label: ", DefaultLabel),
      Blank>>

----------------------------------------------------------------------------
\* C1 (as stated): when neither or both of {positional invitation_url,
\* --from-api} are supplied, main prints the error and the usage text and
\* exits with failure, with no HTTP request and no image file.
C1_AsStated ==
    (Parsed /\ \/ (~UrlSupplied /\ ~argv.from_api)
               \/ (UrlSupplied /\ argv.positionals[1] # <<>> /\ argv.from_api))
        => /\ pc \in {"acquire", "exit"}
           /\ pc = "exit" => (events = UsageErrorEvents /\ Failed)
           /\ Posts = <<>>
           /\ files = {}

\* C1 (amended): when neither is supplied, main prints the error and the
\* usage text and exits with failure, with no HTTP request and no image file;
\* when both are supplied there is no usage error: the run takes the API path
\* and the positional invitation_url is never used as the invitation.
C1_NeitherIsUsageError ==
    /\ (Terminated /\ MainInvoked /\ ~UrlSupplied /\ ~argv.from_api)
          => /\ events = UsageErrorEvents
             /\ Failed
             /\ Posts = <<>>
             /\ files = {}
    /\ (MainInvoked /\ ~UrlSupplied /\ ~argv.from_api)
          => pc \in {"main", "acquire", "exit"}
    /\ (Parsed /\ UrlSupplied /\ argv.from_api)
          => /\ ~Printed(UsageErrorEvents[1])
             /\ pc \in {"generate", "terminal", "print_url", "link", "done"}
                   => /\ Len(Posts) = 1
                      /\ invitation_url = Get(invitation_data, "invitationUrl", None)

C1_Witness ==
    /\ pc = "exit"
    /\ MainInvoked
    /\ ~UrlSupplied
    /\ ~argv.from_api
    /\ events = UsageErrorEvents

----------------------------------------------------------------------------
\* The path the claim C2 names: --output if given, else the positional
\* output_file if given, else the default stamped with the invocation time.
C2_StatedPath ==
    IF argv.output # None THEN argv.output
    ELSE IF OutputSupplied THEN argv.positionals[2]
    ELSE <<"qr_", Strftime(0), ".png">>

\* The same with "--output if given and not empty".
C2_AmendedPath ==
    IF argv.output # None /\ argv.output # <<>> THEN argv.output
    ELSE IF OutputSupplied THEN argv.positionals[2]
    ELSE <<"qr_", Strftime(0), ".png">>

C2_PathIs(path) ==
    /\ \A i \in DOMAIN events :
          /\ events[i].k \in {"encode", "write"} => events[i].a = path
          /\ events[i].k = "post" => output_file = path
          /\ (events[i].k = "print" /\ events[i].a = <<"  Output: ">>)
                => events[i].b = Abspath(path)
    /\ \A f \in files : f[1] = path

\* C2 (as stated): the image path is the --output value if given, else the
\* positional output_file if given, else qr_<timestamp>.png; it is fixed at
\* invocation time, before any API call, and it is the path handed to the
\* encode step and printed.
C2_AsStated == C2_PathIs(C2_StatedPath)

\* C2 (amended): the same, with the --output value winning only when it is
\* given and not the empty string.
C2_OutputResolution ==
    /\ Parsed => output_file = C2_AmendedPath
    /\ C2_PathIs(C2_AmendedPath)

\* Both --output and a positional output file, in API mode, after a POST that
\* took time: the flag's path is the one written.
C2_Witness ==
    /\ Truthy(argv.output)
    /\ OutputSupplied
    /\ Truthy(argv.positionals[2])
    /\ now = TimeoutSecs
    /\ Writes # <<>>
    /\ pc = "done"

----------------------------------------------------------------------------
KeyUnresolvable ==
    /\ argv.api_key \in {None, <<>>}
    /\ environ \in {None, <<>>}

\* C3: with --from-api and no resolvable API key (flag absent or empty, and
\* CREDEBL_API_KEY unset or empty) the run prints the error and exits with
\* failure before any HTTP request; no run with an empty API key ever POSTs.
C3_NoKeyNoPost ==
    /\ (argv.from_api /\ KeyUnresolvable)
          => /\ Posts = <<>>
             /\ pc \in {"start", "main", "acquire", "exit"}
             /\ (pc = "exit" /\ MainInvoked)
                   => (events = KeyErrorEvents /\ Failed)
    /\ (Parsed /\ args.api_key = <<>>) => Posts = <<>>

C3_Witness ==
    /\ pc = "exit"
    /\ argv.from_api
    /\ KeyUnresolvable
    /\ events = KeyErrorEvents

----------------------------------------------------------------------------
\* C4: at most one POST per run and only in API mode; a POST that fails
\* (transport error, timeout, non-2xx) is followed by the error message and
\* a failure exit, with no second request and no encode step.
C4_OnePostNoRetry ==
    /\ Len(Posts) <= 1
    /\ Posts # <<>> => argv.from_api
    /\ \A i \in DOMAIN events :
          (events[i].k = "post" /\ events[i].b # <<"200">>)
             => /\ Len(events) = i + 1
                /\ events[i + 1] = Line("Error creating invitation: ", events[i].b)
                /\ Failed
                /\ Encodes = <<>>
                /\ files = {}

C4_Witness ==
    /\ pc = "exit"
    /\ Len(Posts) = 1
    /\ Posts[1].b = <<"Timeout">>

----------------------------------------------------------------------------
\* C5: a run that exits with failure has written no image file.
C5_FailureLeavesNoFile ==
    Failed => (files = {} /\ Writes = <<>>)

----------------------------------------------------------------------------
\* The place of an event in the documented order of the output; 0 for blank
\* lines, value lines and error output, which the order does not speak of.
Rank(e) ==
    CASE e.k = "post" -> 1
      [] e.k = "encode" -> 4
      [] e.k = "write" -> 5
      [] e.k = "art" -> 7
      [] e.k = "stderr" -> 0
      [] e.k = "print" /\ e.a \in {<<"Creating invitation via API...">>,
                                   <<"  Base URL: ">>, <<"  Label: ">>} -> 1
      [] e.k = "print" /\ e.a = <<"json">> -> 2
      [] e.k = "print" /\ e.a \in {<<"Invitation created successfully!">>,
                                   <<"  OOB Record ID: ">>} -> 3
      [] e.k = "print" /\ e.a = <<"Generating QR code...">> -> 4
      [] e.k = "print" /\ e.a = <<"  Output: ">> -> 6
      [] e.k = "print" /\ e.a = <<"Terminal QR Code:">> -> 7
      [] e.k = "print" /\ e.a = <<"Invitation URL:">> -> 8
      [] e.k = "print" /\ e.a \in {<<"Online QR Generator:">>, <<LinkPrefix>>} -> 9
      [] e.k = "print" /\ e.a = <<"Done! Scan the QR code with your mobile wallet.">> -> 10
      [] OTHER -> 0

\* The ranks of the events that have one, in the order of the events.
RECURSIVE RanksOf(_)
RanksOf(evs) ==
    IF evs = <<>> THEN <<>>
    ELSE LET r == Rank(Head(evs))
         IN  (IF r = 0 THEN <<>> ELSE <<r>>) \o RanksOf(Tail(evs))

\* The invitation URL as the caller or the agent gave it.
SourceUrl ==
    IF argv.from_api
    THEN Get(invitation_data, "invitationUrl", None)
    ELSE argv.positionals[1]

\* C6: the outputs come in the order API status lines, (with --json) the raw
\* response, the success summary, the output path, the terminal QR art (iff
\* --terminal, for the data that was encoded), the "Invitation URL:" line
\* with the URL unchanged, the online link; and the image is written before
\* its path is printed.
C6_OutputOrder ==
    /\ LET r == RanksOf(events)
       IN  \A i \in 1..(Len(r) - 1) : r[i] <= r[i + 1]
    /\ \A j \in DOMAIN events :
          /\ (events[j].k = "print" /\ events[j].a = <<"  Output: ">>)
                => /\ events[j].b = Abspath(output_file)
                   /\ \E i \in 1..(j - 1) :
                         events[i].k = "write" /\ events[i].a = output_file
          /\ events[j].k = "art"
                => /\ argv.terminal
                   /\ \E i \in 1..(j - 1) :
                         events[i].k = "encode" /\ events[i].b = events[j].b
          /\ (events[j].k = "print" /\ events[j].a = <<"Invitation URL:">>)
                => /\ j < Len(events)
                   /\ events[j + 1] = LineOf(SourceUrl)
          /\ (events[j].k = "print" /\ events[j].a = <<"json">>)
                => (argv.json /\ argv.from_api)
    /\ pc = "done"
          => /\ \E i \in DOMAIN events : Rank(events[i]) = 6
             /\ \E i \in DOMAIN events : Rank(events[i]) = 8
             /\ \E i \in DOMAIN events : events[i].a = <<LinkPrefix>>
             /\ argv.terminal => \E i \in DOMAIN events : events[i].k = "art"
             /\ argv.from_api
                   => /\ SubSeq(events, 1, 4) = StatusEvents
                      /\ Printed(Line("Invitation created successfully!", <<>>))
                      /\ argv.json => \E i \in DOMAIN events : Rank(events[i]) = 2

C6_Witness ==
    /\ pc = "done"
    /\ argv.from_api
    /\ argv.json
    /\ argv.terminal

----------------------------------------------------------------------------
\* C7: in API mode with a single positional argument and no --output, the
\* positional argument is the output file: the image is written to it.
C7_PositionalIsOutputInApiMode ==
    (argv.from_api /\ Len(argv.positionals) = 1 /\ argv.output = None)
        => /\ \A i \in DOMAIN events :
                 events[i].k = "write" => events[i].a = argv.positionals[1]
           /\ \A f \in files : f[1] = argv.positionals[1]

----------------------------------------------------------------------------
\* Characters that may not appear raw in a query-string value.
Reserved == {"&", "?", "=", "#", " "}

\* C8: on every successful run, with or without the HTTP library, the link
\* printed is the fixed prefix followed by the percent-encoding of the
\* invitation URL: no raw '&', '?', '=', '#' or space of the URL is in it.
C8_LinkIsPercentEncoded ==
    pc = "done"
        => \E i \in DOMAIN events :
              /\ events[i].k = "print"
              /\ events[i].a = <<LinkPrefix>>
              /\ \A n \in DOMAIN events[i].b : events[i].b[n] \notin Reserved

----------------------------------------------------------------------------
\* C9 (as stated): a missing dependency (QR/image library or HTTP library)
\* makes the run print install instructions and exit with failure before
\* any other work: nothing else printed, no arguments resolved, no request,
\* no file.
C9_AsStated ==
    (Terminated /\ installed # {"qrcode", "requests"})
        => /\ events \in {QrMissingEvents, RequestsMissingEvents}
           /\ Failed
           /\ args = NoArgs
           /\ output_file = None
           /\ Posts = <<>>
           /\ files = {}

\* C9 (amended): a missing QR/image library makes the run print install
\* instructions and exit with failure before any other work.  A missing HTTP
\* library is noticed only in API mode with an API key, when the invitation
\* is about to be created: after argument resolution, the key check and the
\* status lines, before any request and any file; the run then prints the
\* install instructions and exits with failure.  A direct-mode run is not
\* stopped by it.
C9_MissingDependency ==
    /\ ("qrcode" \notin installed /\ pc # "start")
          => /\ events = QrMissingEvents
             /\ Failed
             /\ args = NoArgs
             /\ output_file = None
             /\ Posts = <<>>
             /\ files = {}
    /\ ("qrcode" \in installed /\ "requests" \notin installed)
          => /\ Posts = <<>>
             /\ (Terminated /\ argv.from_api /\ Truthy(ResolveApiKey(argv.api_key, environ)))
                   => /\ events = StatusEvents \o RequestsMissingEvents
                      /\ Failed
                      /\ args # NoArgs
                      /\ files = {}
             /\ (Terminated /\ ~argv.from_api)
                   => ~Printed(RequestsMissingEvents[1])
    /\ Printed(RequestsMissingEvents[1]) => "requests" \notin installed

C9_Witness ==
    /\ pc = "exit"
    /\ "requests" \notin installed
    /\ events = StatusEvents \o RequestsMissingEvents

----------------------------------------------------------------------------
\* The POST was answered 2xx with an object that has no invitationUrl.
NoUrlField ==
    /\ Len(Posts) = 1
    /\ Posts[1].b = <<"200">>
    /\ "invitationUrl" \notin DOMAIN invitation_data

\* C10: when the answer has no invitationUrl the run does not fail at
\* acquisition: it prints the success summary and the OOB record id (or
\* N/A), and hands None unchanged to the encode step and the display steps.
C10_NullUrlPropagates ==
    NoUrlField
        => /\ pc = "exit" => Encodes # <<>>
           /\ pc # "api_report"
                 => /\ Printed(Line("Invitation created successfully!", <<>>))
                    /\ Printed(Line("  OOB Record ID: ",
                          Get(Get(invitation_data, "outOfBandRecord", EmptyDict),
                              "id", <<"N/A">>)))
                    /\ invitation_url = None
           /\ \A i \in DOMAIN events :
                 /\ events[i].k \in {"encode", "art"} => events[i].b = None
                 /\ (events[i].k = "print" /\ events[i].a = <<"Invitation URL:">>)
                       => events[i + 1] = LineOf(None)

C10_Witness ==
    /\ NoUrlField
    /\ pc = "link"
    /\ argv.terminal
    /\ \E i \in DOMAIN events : events[i] = Art(None)

====
